---- MODULE Spec2Model ----
(***************************************************************************)
(* The counter program of ace (counter/src/lib.rs): one state account that *)
(* holds seq, num_actions, counter and a fixed-capacity ordered queue of   *)
(* asynchronous instructions, and the entrypoint CounterProgram::process   *)
(* that refills (tag 0), queues (tag 1) or drains (tag 2).                 *)
(*                                                                         *)
(* u64 fields are modelled with a small range instead of 0..2^64-1: seq    *)
(* with 0..SEQ_MAX, the others with 0..U64_MAX; the arithmetic keeps the   *)
(* range.  seq has the larger one, so that the queue fills before seq      *)
(* runs out, as 8192 nodes do before 2^64 enqueues.                        *)
(*                                                                         *)
(* `+` on a u64 overflows either by panicking (overflow-checks on) or by   *)
(* wrapping (overflow-checks off), as the deployed build was compiled:     *)
(* each invocation takes either.  The sync decoder dereferences a u64      *)
(* pointer that is not 8-aligned: a build with alignment checks panics     *)
(* there, a build without them loads the value; each invocation takes      *)
(* either.                                                                 *)
(*                                                                         *)
(* A failed invocation (Err or panic) is not committed by the runtime: the *)
(* account keeps its bytes.  While a transaction is in flight the          *)
(* variables hold the account before it and tx.written the buffer after.   *)
(*                                                                         *)
(* The queue is sokoban's RedBlackTree; it is modelled by what the program *)
(* calls of it: insert (None, and no node, on a full tree), remove,        *)
(* the leftmost node, and initialize (a panic on an allocator that is      *)
(* already initialized).                                                   *)
(***************************************************************************)
EXTENDS Integers, Sequences, FiniteSets, TLC

\* Largest value of the model's u64 (num_actions, counter, slot).
U64_MAX == 2

\* Largest value of the model's u64 for seq.
SEQ_MAX == 4

\* RedBlackTree<AsyncIxKey, Pubkey, 8192>: the number of nodes the queue holds.
Capacity == 2

\* CounterAsyncIx and CounterSyncIx discriminants and their MAX_VARIANT.
Decrement == 0
Increment == 1
RefillActions == 0

SYNC_MAX_VARIANT == 0
ASYNC_MAX_VARIANT == 1

\* The pubkeys of the users that queue instructions.
Users == {1, 2}
U64 == 0..U64_MAX
\* Inputs of an invocation: the tag byte (3 stands for every unknown tag),
\* the number of payload bytes after the tag (a drain carries none), the
\* u64 they start with (2 stands for every discriminant above both
\* MAX_VARIANTs).
Tags == 0..3
DataLens == {0, 4, 8}
Discs == 0..2
\* How many accounts the instruction carries, and which one comes first.
AccountCounts == 1..2
StateAccounts == {"state", "other_zero", "other_set"}

VARIABLES
    seq,             \* CounterState.seq
    num_actions,     \* CounterState.num_actions
    counter,         \* CounterState.counter
    async_queue,     \* CounterState.async_queue: its nodes in key order
    queue_init,      \* the queue's allocator has been initialized
    slot,            \* Clock.slot
    tx,              \* the transaction in flight: the instruction's inputs,
                     \* its result, the async instructions it executed and
                     \* the account buffer as the program left it
    pending,         \* history: the keys of the enqueues that returned Ok
                     \* and have not been executed since
    executed_total   \* history: how many async instructions have executed

vars == <<seq, num_actions, counter, async_queue, queue_init, slot, tx,
          pending, executed_total>>

\* The account's bytes as one value.
Region == [seq |-> seq, num_actions |-> num_actions, counter |-> counter,
           async_queue |-> async_queue, queue_init |-> queue_init]

----------------------------------------------------------------------------
\* AsyncIxKey: #[derive(Ord)] compares the fields in declaration order.
AsyncIxKey(s, ixn, sq) == [slot |-> s, ixn_value |-> ixn, seq |-> sq]

\* KeyLess with the fields of AsyncIxKey declared in another order.
KeyLess_KindFirst(a, b) ==
    \/ a.ixn_value < b.ixn_value
    \/ a.ixn_value = b.ixn_value /\ a.slot < b.slot
    \/ a.ixn_value = b.ixn_value /\ a.slot = b.slot /\ a.seq < b.seq

KeyLess_SeqBeforeKind(a, b) ==
    \/ a.slot < b.slot
    \/ a.slot = b.slot /\ a.seq < b.seq
    \/ a.slot = b.slot /\ a.seq = b.seq /\ a.ixn_value < b.ixn_value

KeyLess(a, b) ==
    \/ a.slot < b.slot
    \/ a.slot = b.slot /\ a.ixn_value < b.ixn_value
    \/ a.slot = b.slot /\ a.ixn_value = b.ixn_value /\ a.seq < b.seq

\* Insertion that never finds the tree full.
TreeInsert_Unbounded(q, key, value) ==
    IF \E i \in 1..Len(q) : q[i].key = key
    THEN [i \in 1..Len(q) |->
            IF q[i].key = key THEN [key |-> key, value |-> value] ELSE q[i]]
    ELSE LET below == SelectSeq(q, LAMBDA n : KeyLess(n.key, key))
             above == SelectSeq(q, LAMBDA n : KeyLess(key, n.key))
         IN  below \o <<[key |-> key, value |-> value]>> \o above

\* RedBlackTree::insert(key, value).  An equal key has its value replaced; a
\* full tree takes no new node (insert returns None); else the node is put
\* at its place in key order.
TreeInsert(q, key, value) ==
    IF \E i \in 1..Len(q) : q[i].key = key
    THEN [i \in 1..Len(q) |->
            IF q[i].key = key THEN [key |-> key, value |-> value] ELSE q[i]]
    ELSE IF Len(q) >= Capacity
    THEN q
    ELSE LET below == SelectSeq(q, LAMBDA n : KeyLess(n.key, key))
             above == SelectSeq(q, LAMBDA n : KeyLess(key, n.key))
         IN  below \o <<[key |-> key, value |-> value]>> \o above

\* Removal that compares the epoch alone.
TreeRemove_BySlot(q, key) == SelectSeq(q, LAMBDA n : n.key.slot # key.slot)

\* RedBlackTree::remove(&key).
TreeRemove(q, key) == SelectSeq(q, LAMBDA n : n.key # key)

\* CounterState::peek_async: walk left from the root; the leftmost node.
None == [none |-> TRUE]
peek_async(q) == IF Len(q) = 0 THEN None ELSE q[1]

\* CounterState::pop_async: peek, then remove that node's key.
pop_async(q) ==
    LET val == peek_async(q)
    IN  IF val = None THEN [node |-> None, queue |-> q]
        ELSE [node |-> val, queue |-> TreeRemove(q, val.key)]

----------------------------------------------------------------------------
\* u64 `+ 1`: [panic |-> TRUE] when the build checks overflow and the value
\* is the largest, else the wrapped sum.
AddOne(x, max, overflow_checks) ==
    IF x = max
    THEN IF overflow_checks THEN [panic |-> TRUE, v |-> x]
                            ELSE [panic |-> FALSE, v |-> 0]
    ELSE [panic |-> FALSE, v |-> x + 1]

\* wrapping_add in place of saturating_add.
saturating_add_Wrapping(x) == (x + 1) % (U64_MAX + 1)

saturating_add(x) == IF x = U64_MAX THEN U64_MAX ELSE x + 1
saturating_sub(x) == IF x = 0 THEN 0 ELSE x - 1

\* What an invocation returns: the result, the account bytes as the code
\* left them, and the keys of the async instructions it executed, in order.
Out(result, region, executed) ==
    [result |-> result, region |-> region, executed |-> executed]

\* <CounterSyncIx as FromBytes>::from_bytes: split_at_checked(8), then the
\* u64 is read by dereferencing ix.as_ptr().cast::<u64>().  ix starts one
\* byte into the instruction data, so the pointer is not 8-aligned: a build
\* with alignment checks (ac) panics at the dereference, a build without
\* them performs the load.
SyncFromBytes(len, disc, ac) ==
    IF len < 8 THEN "InvalidInstructionData"
    ELSE IF ac THEN "Panic"
    ELSE IF disc > SYNC_MAX_VARIANT THEN "InvalidInstructionData"
    ELSE "Ok"

\* <CounterAsyncIx as FromBytes>::from_bytes: split_at_checked(8), then
\* read_unaligned of the u64 against MAX_VARIANT.

AsyncFromBytes(len, disc) ==
    IF len < 8 THEN "InvalidInstructionData"
    ELSE IF disc > ASYNC_MAX_VARIANT THEN "InvalidInstructionData"
    ELSE "Ok"

\* <CounterSyncIx as SyncIx>::process: RefillActions, num_actions += 1.
SyncProcess(R, oc) ==
    LET n == AddOne(R.num_actions, U64_MAX, oc)
    IN  IF n.panic THEN Out("Panic", R, <<>>)
        ELSE Out("Ok", [R EXCEPT !.num_actions = n.v], <<>>)

\* <CounterAsyncIx as AsyncIx>::process: saturating add or sub on counter;
\* always Ok.
AsyncProcess(ixn, R) ==
    IF ixn = Increment
    THEN [R EXCEPT !.counter = saturating_add(R.counter)]
    ELSE [R EXCEPT !.counter = saturating_sub(R.counter)]

\* queue_async with the key allocated and seq advanced ahead of the credit
\* check.
queue_async_SeqFirst(R, ixn, user, s, oc) ==
    LET n == AddOne(R.seq, SEQ_MAX, oc)
    IN  IF n.panic THEN Out("Panic", R, <<>>)
        ELSE IF R.num_actions = 0
        THEN Out("InsufficientCredits", [R EXCEPT !.seq = n.v], <<>>)
        ELSE Out("Ok",
                 [R EXCEPT !.seq = n.v,
                           !.num_actions = R.num_actions - 1,
                           !.async_queue = TreeInsert(R.async_queue,
                                              AsyncIxKey(s, ixn, R.seq), user)],
                 <<>>)

\* CounterState::queue_async.  Err(Custom(0x0)) is the insufficient-credit
\* error.  The Option that insert returns is dropped.
queue_async(R, ixn, user, s, oc) ==
    IF R.num_actions = 0 THEN Out("InsufficientCredits", R, <<>>)
    ELSE LET key == AsyncIxKey(s, ixn, R.seq)
             n   == AddOne(R.seq, SEQ_MAX, oc)
         IN  IF n.panic THEN Out("Panic", R, <<>>)
             ELSE Out("Ok",
                      [R EXCEPT !.seq = n.v,
                                !.num_actions = R.num_actions - 1,
                                !.async_queue = TreeInsert(R.async_queue, key, user)],
                      <<>>)

\* process_next_async that gives the credit back when the action runs.
process_next_async_Refund(R) ==
    LET p == pop_async(R.async_queue)
    IN  IF p.node = None THEN R
        ELSE AsyncProcess(p.node.key.ixn_value,
                          [R EXCEPT !.async_queue = p.queue,
                                    !.num_actions = (R.num_actions + 1) % (U64_MAX + 1)])

\* CounterState::process_next_async: pop the minimum and run it.
process_next_async(R) ==
    LET p == pop_async(R.async_queue)
    IN  IF p.node = None THEN R
        ELSE AsyncProcess(p.node.key.ixn_value, [R EXCEPT !.async_queue = p.queue])

\* CounterState::has_pending_async: val.key.slot + 1 <= slot.
has_pending_async(R, s, oc) ==
    LET val == peek_async(R.async_queue)
    IN  IF val = None THEN [panic |-> FALSE, pending |-> FALSE]
        ELSE LET n == AddOne(val.key.slot, U64_MAX, oc)
             IN  [panic |-> n.panic, pending |-> n.v <= s]

\* The drain loop of CounterProgram::process, tag 2:
\* while state.has_pending_async(slot) { state.process_next_async()? }
RECURSIVE DrainLoop(_, _, _, _)
DrainLoop(R, s, oc, executed) ==
    LET h == has_pending_async(R, s, oc)
    IN  IF h.panic THEN Out("Panic", R, executed)
        ELSE IF ~h.pending THEN Out("Ok", R, executed)
        ELSE DrainLoop(process_next_async(R), s, oc,
                       Append(executed, peek_async(R.async_queue).key))

\* initialize_state: *seq = 1, then async_queue.initialize(), which panics
\* ("Cannot reinitialize NodeAllocator") on an allocator that is already
\* initialized: the case of a seq that wrapped to 0.
initialize_state(R) ==
    IF R.queue_init
    THEN [panic |-> TRUE, region |-> [R EXCEPT !.seq = 1]]
    ELSE [panic |-> FALSE,
          region |-> [R EXCEPT !.seq = 1, !.async_queue = <<>>,
                               !.queue_init = TRUE]]

\* Tags above 2 treated as a drain.
Dispatch_UnknownDrains(R, in) ==
    CASE in.tag = 0 ->
            IF SyncFromBytes(in.len, in.disc, in.ac) # "Ok"
            THEN Out(SyncFromBytes(in.len, in.disc, in.ac), R, <<>>)
            ELSE SyncProcess(R, in.oc)
      [] in.tag = 1 ->
            IF AsyncFromBytes(in.len, in.disc) # "Ok"
            THEN Out(AsyncFromBytes(in.len, in.disc), R, <<>>)
            ELSE queue_async(R, in.disc, in.user, in.slot, in.oc)
      [] OTHER -> DrainLoop(R, in.slot, in.oc, <<>>)

\* The match on ix_type in CounterProgram::process.
Dispatch(R, in) ==
    CASE in.tag = 0 ->
            IF SyncFromBytes(in.len, in.disc, in.ac) # "Ok"
            THEN Out(SyncFromBytes(in.len, in.disc, in.ac), R, <<>>)
            ELSE SyncProcess(R, in.oc)
      [] in.tag = 1 ->
            IF AsyncFromBytes(in.len, in.disc) # "Ok"
            THEN Out(AsyncFromBytes(in.len, in.disc), R, <<>>)
            ELSE queue_async(R, in.disc, in.user, in.slot, in.oc)
      [] in.tag = 2 -> DrainLoop(R, in.slot, in.oc, <<>>)
      [] OTHER -> Out("InvalidInstructionData", R, <<>>)

\* The account given as state_account has size_of::<CounterState>() bytes
\* when it is the program's state account; the other accounts a caller can
\* name there have another size.
SizeOk(in) == in.account = "state"

\* State::from_bytes_mut, then instruction_data[0]: the size check of
\* bytemuck::try_from_bytes_mut, the index panic on an empty payload, the
\* match.
Load(R, in) ==
    IF ~SizeOk(in) THEN Out("InvalidAccountData", R, <<>>)
    ELSE IF in.nodata THEN Out("Panic", R, <<>>)
    ELSE Dispatch(R, in)

\* The account check moved behind the initialization.
Process_InitFirst(R, in) ==
    LET S == IF R.seq = 0 /\ SizeOk(in) /\ ~initialize_state(R).panic
             THEN initialize_state(R).region ELSE R
    IN  IF in.accounts < 2 THEN Out("NotEnoughAccountKeys", S, <<>>)
        ELSE Load(S, in)

\* CounterProgram::process: the two accounts, initialization when the first
\* u64 of the data is 0, then load and dispatch.  initialize_state casts
\* with bytemuck::from_bytes_mut, which panics on a size mismatch before
\* anything is written.
Process(R, in) ==
    IF in.accounts < 2 THEN Out("NotEnoughAccountKeys", R, <<>>)
    ELSE IF R.seq = 0
    THEN IF ~SizeOk(in) THEN Out("Panic", R, <<>>)
         ELSE LET i == initialize_state(R)
              IN  IF i.panic THEN Out("Panic", i.region, <<>>)
                  ELSE Load(i.region, in)
    ELSE Load(R, in)

----------------------------------------------------------------------------
NoInput == [tag |-> 0, len |-> 0, disc |-> 0, user |-> 1, slot |-> 0,
            oc |-> FALSE, ac |-> FALSE, accounts |-> 2, account |-> "state",
            nodata |-> FALSE]

\* The account as the system program creates it: zero-filled.
ZeroRegion == [seq |-> 0, num_actions |-> 0, counter |-> 0,
               async_queue |-> <<>>, queue_init |-> FALSE]

NoTx == [op |-> "none", in |-> NoInput, result |-> "Ok",
         executed |-> <<>>, written |-> ZeroRegion]

Init ==
    /\ seq = 0
    /\ num_actions = 0
    /\ counter = 0
    /\ async_queue = <<>>
    /\ queue_init = FALSE
    /\ slot = 0
    /\ tx = NoTx
    /\ pending = {}
    /\ executed_total = 0

\* An instruction as the runtime hands it to the entrypoint: the number of
\* accounts, which account is named as state_account, the payload (absent,
\* or a tag byte, len further bytes and their first u64), the signer, the
\* Clock sysvar, and what the build does on overflow and misalignment.
Input(tag, len, disc, user, oc, ac, accounts, account, nodata) ==
    [tag |-> tag, len |-> len, disc |-> disc, user |-> user, slot |-> slot,
     oc |-> oc, ac |-> ac, accounts |-> accounts, account |-> account,
     nodata |-> nodata]

\* The account data the entrypoint works on: the state account, or another
\* account whose first u64 is zero or not.
Given(in) ==
    IF in.account = "state" THEN Region
    ELSE [ZeroRegion EXCEPT !.seq = IF in.account = "other_set" THEN 1 ELSE 0]

\* The runtime runs one instruction: the entrypoint works on the account's
\* buffer and returns.
Invoke ==
    /\ tx.op = "none"
    /\ \E accounts \in AccountCounts, account \in StateAccounts,
          nodata \in BOOLEAN :
        \* inputs the code does not read are fixed
        /\ accounts < 2 => account = "state"
        /\ (accounts < 2 \/ account # "state") => ~nodata
        /\ \E tag \in Tags, len \in DataLens :
            /\ (accounts < 2 \/ account # "state" \/ nodata) =>
                  tag = 0 /\ len = 0
            /\ tag >= 2 => len = 0
            /\ \E disc \in Discs, user \in Users :
                /\ (len < 8 \/ tag >= 2) => disc = 0
                /\ (tag # 1 \/ AsyncFromBytes(len, disc) # "Ok") => user = 1
                /\ \E oc \in BOOLEAN, ac \in BOOLEAN :
                    LET in == Input(tag, len, disc, user, oc, ac, accounts,
                                    account, nodata)
                        o  == Process(Given(in), in)
                    IN  \* the build's choices are taken where they change
                        \* the outcome
                        /\ oc => Process(Given(in), [in EXCEPT !.oc = FALSE]) # o
                        /\ ac => Process(Given(in), [in EXCEPT !.ac = FALSE]) # o
                        /\ tx' = [op |-> "invoke", in |-> in,
                                  result |-> o.result, executed |-> o.executed,
                                  written |-> o.region]
    /\ UNCHANGED <<seq, num_actions, counter, async_queue, queue_init, slot,
                   pending, executed_total>>

\* The runtime ends the transaction: the buffer becomes the account when the
\* program returned Ok, and is dropped when it failed.
Settle ==
    /\ tx.op = "invoke"
    /\ LET c == IF tx.result = "Ok" THEN tx.written ELSE Region
       IN  /\ seq' = c.seq
           /\ num_actions' = c.num_actions
           /\ counter' = c.counter
           /\ async_queue' = c.async_queue
           /\ queue_init' = c.queue_init
    /\ tx' = NoTx
    /\ UNCHANGED slot

\* The end of the transaction, the history left aside.
Commit == Settle /\ UNCHANGED <<pending, executed_total>>

\* The end of the transaction, the history kept: an enqueue that returned
\* Ok adds the key queue_async built, a drain that returned Ok takes out
\* the keys it executed and adds their number.
CommitRecorded ==
    /\ Settle
    /\ pending' =
          IF tx.result # "Ok" THEN pending
          ELSE IF tx.in.tag = 1
          THEN pending \cup {AsyncIxKey(tx.in.slot, tx.in.disc,
                                        IF seq = 0 THEN 1 ELSE seq)}
          ELSE pending \ {tx.executed[i] : i \in 1..Len(tx.executed)}
    /\ executed_total' =
          IF tx.result = "Ok" THEN executed_total + Len(tx.executed)
          ELSE executed_total

\* The cluster moves to a later slot.
AdvanceSlot ==
    /\ tx.op = "none"
    /\ \E s \in U64 : s > slot /\ slot' = s
    /\ UNCHANGED <<seq, num_actions, counter, async_queue, queue_init, tx,
                   pending, executed_total>>

Next == Invoke \/ Commit \/ AdvanceSlot

Spec == Init /\ [][Next]_vars

\* The same program with the history of accepted and executed actions.
NextRecorded == Invoke \/ CommitRecorded \/ AdvanceSlot

SpecRecorded == Init /\ [][NextRecorded]_vars

\* The invocations that are drains of the state account.
DrainInvoke ==
    Invoke /\ tx'.in.tag = 2 /\ tx'.in.accounts = 2 /\ tx'.in.account = "state"
           /\ ~tx'.in.nodata

\* The cluster keeps producing slots, callers keep sending drains, and the
\* runtime ends every transaction it started.
SpecLive ==
    /\ SpecRecorded
    /\ SF_vars(AdvanceSlot)
    /\ SF_vars(DrainInvoke)
    /\ WF_vars(CommitRecorded)

\* The executors at the upper end: an initialized account whose counter
\* has reached the largest u64.
InitExec ==
    /\ seq = 1
    /\ num_actions = 0
    /\ counter = U64_MAX
    /\ async_queue = <<>>
    /\ queue_init = TRUE
    /\ slot = 0
    /\ tx = NoTx
    /\ pending = {}
    /\ executed_total = 0

SpecExec == InitExec /\ [][Next]_vars

TypeOK ==
    /\ seq \in 0..SEQ_MAX /\ num_actions \in U64 /\ counter \in U64 /\ slot \in U64
    /\ Len(async_queue) <= Capacity

----------------------------------------------------------------------------
\* Vocabulary of the properties below.  While a transaction is in flight
\* the variables are the account before the invocation, tx.written the
\* buffer after it and tx.executed the keys the drain ran, in order.
WellFormed == tx.in.accounts = 2 /\ tx.in.account = "state" /\ ~tx.in.nodata
InFlight(tag) == tx.op = "invoke" /\ WellFormed /\ tx.in.tag = tag
Draining == InFlight(2)
Keys(q) == {q[i].key : i \in 1..Len(q)}
Nodes(q) == {q[i] : i \in 1..Len(q)}
Executed == {tx.executed[i] : i \in 1..Len(tx.executed)}
Ready == seq # 0

\* The order of priority keys the data model states: by epoch, then kind,
\* then seq, ascending.
LexLess(a, b) ==
    LET ta == <<a.slot, a.ixn_value, a.seq>>
        tb == <<b.slot, b.ixn_value, b.seq>>
    IN  \E i \in 1..3 : ta[i] < tb[i] /\ \A j \in 1..(i - 1) : ta[j] = tb[j]

\* C1 (as claimed): a drain invoked at epoch c executes and removes no
\* action queued at an epoch e >= c, and does execute the minimum when its
\* epoch e has e + 1 <= c.
C1_EpochGating ==
    Draining =>
        /\ \A i \in 1..Len(tx.executed) : tx.executed[i].slot < tx.in.slot
        /\ \A n \in Nodes(async_queue) :
              n.key.slot >= tx.in.slot => n \in Nodes(tx.written.async_queue)
        /\ (Ready /\ async_queue # <<>> /\ async_queue[1].key.slot + 1 <= tx.in.slot)
              => async_queue[1].key \in Executed

\* peek_async finds nothing in an empty queue and the least key by
\* (epoch, kind, seq) in any other.
MinIsPeeked(q) ==
    /\ (peek_async(q) = None) <=> (q = <<>>)
    /\ q # <<>> =>
          /\ peek_async(q) \in Nodes(q)
          /\ \A k \in Keys(q) : k = peek_async(q).key \/ LexLess(peek_async(q).key, k)

\* C2: peek_async/pop_async return the node with the least remaining key by
\* (epoch, kind, seq); a drain executes keys in strictly ascending order,
\* each one less than every key left in the queue, and removes exactly
\* the nodes it executed.
C2_MinimumKey ==
    /\ MinIsPeeked(async_queue)
    /\ tx.op = "invoke" => MinIsPeeked(tx.written.async_queue)
    /\ pop_async(async_queue).node = peek_async(async_queue)
    /\ Draining =>
          /\ \A i, j \in 1..Len(tx.executed) :
                i < j => LexLess(tx.executed[i], tx.executed[j])
          /\ \A k \in Executed, r \in Keys(tx.written.async_queue) : LexLess(k, r)
          /\ Executed \subseteq Keys(async_queue)
          /\ Nodes(tx.written.async_queue)
                = {n \in Nodes(async_queue) : n.key \notin Executed}

\* A drain popped the least of two queued keys and left the greater.
C2_Witness ==
    /\ Draining
    /\ Len(tx.executed) = 1
    /\ Len(async_queue) = 2
    /\ tx.executed[1] = async_queue[1].key
    /\ LexLess(tx.executed[1], tx.written.async_queue[1].key)

\* Key a goes before key b within their epoch: the lower kind, or the same
\* kind and the lower seq.
C3_Before(a, b) ==
    /\ a.slot = b.slot
    /\ \/ a.ixn_value < b.ixn_value
       \/ a.ixn_value = b.ixn_value /\ a.seq < b.seq

AtDispatch == IF seq = 0 THEN initialize_state(Region).region ELSE Region
Dispatched == seq # 0 \/ ~initialize_state(Region).panic
ValidAsync == AsyncFromBytes(tx.in.len, tx.in.disc) = "Ok"
ValidSync == tx.in.len >= 8 /\ tx.in.disc <= SYNC_MAX_VARIANT

\* C4 (as claimed): on a Ready account an enqueue with a valid discriminant
\* succeeds exactly when credit > 0, and a successful one leaves credit one
\* lower.
C4_CreditGate ==
    (InFlight(1) /\ Ready /\ ValidAsync) =>
        /\ (tx.result = "Ok") <=> (num_actions > 0)
        /\ tx.result = "Ok" => tx.written.num_actions = num_actions - 1

C6_CapacityExhaustion ==
    /\ Len(async_queue) <= Capacity
    /\ (/\ InFlight(1) /\ ValidAsync /\ Ready
        /\ num_actions > 0
        /\ Len(async_queue) = Capacity
        /\ tx.result # "Panic") =>
            /\ tx.result = "CapacityExceeded"
            /\ tx.written.async_queue = async_queue

\* C7 (as claimed): seq never decreases, every accepted enqueue leaves seq
\* above the seq it assigned, and no key is shared: the keys of the queue
\* differ, and all carry a seq below the next one to assign.
C7_SeqMonotone ==
    /\ (tx.op = "invoke" /\ tx.result = "Ok") => tx.written.seq >= seq
    /\ (InFlight(1) /\ tx.result = "Ok") => tx.written.seq > AtDispatch.seq
    /\ \A i, j \in 1..Len(async_queue) :
          i # j => async_queue[i].key # async_queue[j].key
    /\ Ready => \A k \in Keys(async_queue) : k.seq < seq

\* The value after the executors ran the keys ks from value c, by the
\* arithmetic the claim states: one down but not below 0, one up but not
\* above the maximum.
RECURSIVE C8_Expected(_, _)
C8_Expected(c, ks) ==
    IF ks = <<>> THEN c
    ELSE LET down == IF c - 1 < 0 THEN 0 ELSE c - 1
             up   == IF c + 1 > U64_MAX THEN c ELSE c + 1
         IN  C8_Expected(IF Head(ks).ixn_value = Decrement THEN down ELSE up,
                         Tail(ks))

\* C8: whatever actions a drain executes, value stays within [0, MAX] and
\* never wraps: Decrement at 0 leaves 0, Increment at MAX leaves MAX, else
\* the value moves by exactly 1; no executor makes the drain return an error.
C8_Saturation ==
    /\ counter \in 0..U64_MAX
    /\ Draining =>
          /\ tx.written.counter \in 0..U64_MAX
          /\ tx.written.counter = C8_Expected(AtDispatch.counter, tx.executed)
          /\ tx.result \in {"Ok", "Panic"}

\* An Increment ran with the value at the maximum, and left it there.
C8_Witness ==
    /\ Draining
    /\ counter = U64_MAX
    /\ Len(tx.executed) = 1
    /\ tx.executed[1].ixn_value = Increment
    /\ tx.result = "Ok"
    /\ tx.written.counter = U64_MAX

\* C9 (as claimed): on a Ready account, whatever the credit, a refill
\* succeeds, makes credit one more and changes nothing else.
C9_Refill ==
    (InFlight(0) /\ Ready /\ ValidSync) =>
        /\ tx.result = "Ok"
        /\ tx.written = [Region EXCEPT !.num_actions = num_actions + 1]

\* C10 (as claimed): a drain leaves credit and seq as they were, and a
\* failing invocation leaves credit as it was.
C10_DrainFrame_Original ==
    /\ Draining => tx.written.num_actions = num_actions /\ tx.written.seq = seq
    /\ (tx.op = "invoke" /\ tx.result # "Ok") =>
          tx.written.num_actions = Given(tx.in).num_actions

\* C10 (amended): a drain on a Ready account leaves credit and seq as they
\* were, however many actions it executes; a drain that is the first touch
\* of a zero account leaves credit as it was and seq at the 1 that
\* initialization sets; a failing invocation leaves credit as it was.
C10_DrainFrame ==
    /\ Draining =>
          /\ tx.written.num_actions = num_actions
          /\ tx.written.seq = AtDispatch.seq
          /\ Ready => tx.written.seq = seq
    /\ (tx.op = "invoke" /\ tx.result # "Ok") =>
          tx.written.num_actions = Given(tx.in).num_actions

\* A drain executed an action whose credit had been spent: none came back.
C10_Witness ==
    /\ Draining
    /\ Ready
    /\ num_actions = 0
    /\ Len(tx.executed) >= 1
    /\ tx.result = "Ok"
    /\ tx.written.num_actions = 0

\* C11 (as claimed): a drain at epoch c executes, in queue order, exactly
\* the leading nodes whose epoch is below c, stops at the first node that
\* is not, leaves the nodes behind it in the queue, and after a successful
\* return no node of the queue has an epoch below c.
C11_DrainExhaustion ==
    Draining =>
        LET n == Len(tx.executed)
            c == tx.in.slot
        IN  /\ n <= Len(async_queue)
            /\ \A i \in 1..n :
                  tx.executed[i] = async_queue[i].key /\ tx.executed[i].slot < c
            /\ tx.result = "Ok" =>
                  /\ n < Len(async_queue) => async_queue[n + 1].key.slot >= c
                  /\ tx.written.async_queue
                        = SubSeq(async_queue, n + 1, Len(async_queue))
                  /\ \A k \in Keys(tx.written.async_queue) : k.slot >= c

\* C12 (as claimed): a drain on a Ready account whose queue is empty, or
\* whose minimum key has an epoch not below the current one, returns
\* success and leaves seq, credit, value and the queue as they were.
C12_DrainNoOp ==
    (/\ Draining
     /\ Ready
     /\ \/ Len(async_queue) = 0
        \/ async_queue[1].key.slot >= tx.in.slot) =>
        /\ tx.result = "Ok"
        /\ tx.executed = <<>>
        /\ tx.written = Region

\* The state the claims call initial: seq 1, no credit, value 0, an empty
\* initialized store.
FreshState == [seq |-> 1, num_actions |-> 0, counter |-> 0,
               async_queue |-> <<>>, queue_init |-> TRUE]

\* C13 (as claimed): an invocation that finds seq = 0 in the state account
\* initializes it to seq 1, credit 0, value 0 and an empty store before the
\* tag is dispatched: its result and the buffer it leaves are those of the
\* operation applied to exactly that state.
C13_FirstTouch ==
    (tx.op = "invoke" /\ tx.in.accounts = 2 /\ tx.in.account = "state"
        /\ seq = 0) =>
        LET o == Load(FreshState, tx.in)
        IN  /\ tx.result = o.result
            /\ tx.executed = o.executed
            /\ tx.written = o.region

\* C14 (as claimed): once the account has been initialized its seq is never
\* 0 again, so no later invocation finds seq = 0 or runs the initialization
\* a second time, and no invocation empties a queue that holds pending
\* actions other than by executing them.
C14_InitOnce ==
    /\ queue_init => seq # 0
    /\ (tx.op = "invoke" /\ tx.in.account = "state" /\ queue_init) =>
          /\ tx.written.seq # 0
          /\ Len(tx.written.async_queue) + Len(tx.executed)
                >= Len(async_queue)

\* C15: an invocation that reaches the dispatch with a tag byte other than
\* 0, 1 and 2 fails with InvalidInstructionData and executes nothing; the
\* buffer is the account as it stood at the dispatch, which for a Ready
\* account is the account unchanged.
C15_UnknownTag ==
    (InFlight(3) /\ Dispatched) =>
        /\ tx.result = "InvalidInstructionData"
        /\ tx.executed = <<>>
        /\ tx.written = AtDispatch
        /\ Ready => tx.written = Region

\* An unknown tag met a Ready account with credit and a ready action.
C15_Witness ==
    /\ InFlight(3)
    /\ Ready
    /\ num_actions > 0
    /\ Len(async_queue) > 0
    /\ async_queue[1].key.slot < tx.in.slot
    /\ tx.result = "InvalidInstructionData"

C17_RegionSize ==
    (tx.op = "invoke" /\ tx.in.accounts = 2 /\ ~SizeOk(tx.in)) =>
        /\ tx.result = "InvalidAccountData"
        /\ tx.written = Given(tx.in)

\* peek and pop agree on the queue q: on an empty queue both return nothing
\* and the queue stays; otherwise pop returns the node peek returns, key
\* and actor, and takes that node and no other out of the queue.
PeekPopConsistent(q) ==
    LET peeked == peek_async(q)
        popped == pop_async(q)
    IN  IF Len(q) = 0
        THEN peeked = None /\ popped.node = None /\ popped.queue = q
        ELSE /\ peeked \in Nodes(q)
             /\ popped.node = peeked
             /\ Len(popped.queue) = Len(q) - 1
             /\ Nodes(popped.queue) = Nodes(q) \ {peeked}
             /\ popped.queue = Tail(q)

\* C18: in every state, of the account and of the buffer an invocation
\* leaves, peek_async and pop_async are consistent; and the keys a drain
\* executed are the nodes it took from the front of the queue, one each.
C18_PeekPop ==
    /\ PeekPopConsistent(async_queue)
    /\ tx.op = "invoke" => PeekPopConsistent(tx.written.async_queue)
    /\ (Draining /\ tx.result = "Ok") =>
          Len(tx.written.async_queue) = Len(async_queue) - Len(tx.executed)

\* A drain popped two nodes that share an epoch and belong to different
\* actors, one after the other, in key order.
C18_Witness ==
    /\ Draining
    /\ tx.result = "Ok"
    /\ Len(async_queue) = 2
    /\ async_queue[1].key.slot = async_queue[2].key.slot
    /\ async_queue[1].value # async_queue[2].value
    /\ tx.executed = <<async_queue[1].key, async_queue[2].key>>
    /\ tx.written.async_queue = <<>>

\* The account with the first i nodes of its queue popped: the states a
\* drain passes through.
AfterPops(i) ==
    [Region EXCEPT !.async_queue = SubSeq(async_queue, i + 1, Len(async_queue))]

\* C19: a drain ends, with Ok or with a panic, having executed at most as
\* many actions as the queue held when it started, and the queue never
\* holds more than the store's capacity; every pass of the loop makes the
\* queue one node shorter, which bounds the number of passes.
C19_BoundedDrain ==
    /\ Len(async_queue) <= Capacity
    /\ Draining =>
          /\ tx.result \in {"Ok", "Panic"}
          /\ Len(tx.executed) <= Len(async_queue)
          /\ Len(tx.executed) <= Capacity
    /\ \A i \in 0..(Len(async_queue) - 1) :
          Len(process_next_async(AfterPops(i)).async_queue)
            = Len(async_queue) - i - 1

\* A drain on a full queue executed every node of it.
C19_Witness ==
    /\ Draining
    /\ tx.result = "Ok"
    /\ Len(async_queue) = Capacity
    /\ Len(tx.executed) = Capacity

\* C20: an invocation that carries fewer than two accounts fails with
\* NotEnoughAccountKeys, executes nothing and leaves the account as it was:
\* a zero account is not even initialized.
C20_MissingInputs ==
    (tx.op = "invoke" /\ tx.in.accounts < 2) =>
        /\ tx.result = "NotEnoughAccountKeys"
        /\ tx.executed = <<>>
        /\ tx.written = Region

\* One account only, on the zero account: rejected, seq still 0.
C20_Witness ==
    /\ tx.op = "invoke"
    /\ tx.in.accounts < 2
    /\ seq = 0
    /\ ~queue_init
    /\ tx.result = "NotEnoughAccountKeys"
    /\ tx.written.seq = 0

\* C21 (as claimed): a successful enqueue at epoch c with discriminant k,
\* dispatched on an account with seq = s, adds exactly the node with key
\* {slot: c, ixn_value: k, seq: s} and the invoking user as value, makes
\* the queue one node longer and seq s + 1, and leaves the counter and the
\* nodes queued before as they were.
C21_EnqueueEffect ==
    (InFlight(1) /\ tx.result = "Ok") =>
        LET key  == AsyncIxKey(tx.in.slot, tx.in.disc, AtDispatch.seq)
            node == [key |-> key, value |-> tx.in.user]
        IN  /\ Nodes(tx.written.async_queue) = Nodes(async_queue) \cup {node}
            /\ node \notin Nodes(async_queue)
            /\ Len(tx.written.async_queue) = Len(async_queue) + 1
            /\ tx.written.seq = AtDispatch.seq + 1
            /\ tx.written.counter = counter

\* C22 (as claimed): in every state every key of the queue has a kind that
\* is a CounterAsyncIx variant, a seq below the account's seq and an epoch
\* not above the current one.
C22_ValidatedKinds ==
    \A k \in Keys(async_queue) :
        /\ k.ixn_value \in {Decrement, Increment}
        /\ k.seq < seq
        /\ k.slot <= slot

\* C23 (as claimed): on an initialized account every enqueue that returned
\* Ok is still in the queue or has executed exactly once: the keys accepted
\* and not yet executed are the keys of the queue, seq - 1 is the number of
\* queued nodes plus the number of executed actions, a drain executes only
\* accepted keys and none twice, and an accepted enqueue takes one credit.
C23_Conservation ==
    /\ queue_init =>
          /\ pending = Keys(async_queue)
          /\ seq - 1 = Len(async_queue) + executed_total
    /\ Draining =>
          /\ Executed \subseteq pending
          /\ Cardinality(Executed) = Len(tx.executed)
    /\ (InFlight(1) /\ tx.result = "Ok") =>
          tx.written.num_actions = AtDispatch.num_actions - 1

\* The accepted enqueue with sequence number n waits although its epoch
\* has passed.
Overdue(n) == \E k \in pending : k.seq = n /\ k.slot < slot

\* C24 (as claimed): an action whose enqueue returned Ok at epoch e is
\* executed by the first successful drain invoked at an epoch above e; so,
\* with slots advancing and drains being sent again and again, every
\* accepted enqueue, told apart by its sequence number, is executed once
\* the epoch has passed e.
C24_EventualExecution ==
    /\ [](Draining /\ tx.result = "Ok" =>
            \A k \in pending : k.slot < tx.in.slot => k \in Executed)
    /\ \A n \in 1..SEQ_MAX :
          Overdue(n) ~> ~(\E k \in pending : k.seq = n)

====
